---- MODULE Spec2Model ----
(***************************************************************************)
(* Model of internal/gitlab.go: the job trace streamer (DoTrace,           *)
(* TraceRunningJobs, IsRunning, re) and the project listings               *)
(* (getAllGroupProjects, getGroupProjects, getAllSubgroups,                *)
(* getAllProjects).                                                        *)
(*                                                                         *)
(* A trace is a byte string; the bytes that matter are modelled as         *)
(* integer tokens: NL is "\n", a positive number i is the text of the      *)
(* i-th line the job wrote.  A trace of L whole lines is                   *)
(* <<1, NL, 2, NL, ..., L, NL>>.                                           *)
(***************************************************************************)
EXTENDS Integers, Sequences, FiniteSets, TLC

\* ---------------------------------------------------------------- bounds
MaxLines == 4        \* lines a trace can hold (DoTrace run on one job)
MaxTail == 3         \* largest tailLine tried
MaxTicks == 3        \* ticks of one DoTrace loop
MaxJobs == 2         \* jobs handed to TraceRunningJobs
MaxTicksJobs == 1    \* ticks of one DoTrace loop under TraceRunningJobs, the last one apart
MaxRoots == 2        \* groups handed to getAllGroupProjects
MaxWorkers == 3      \* entries of allGroups, one goroutine each
MaxPages == 3        \* pages of one listing (getGroupProjects, getAllSubgroups)
MaxPerPage == 2      \* items on one page
MaxLineLen == 4      \* tokens of one raw trace line (control sequences, text)
MaxRevisits == 1     \* requests of one listing beyond MaxPages that are followed

\* ---------------------------------------------------------------- tokens
NL == 0              \* "\n"
ESC0m == -1          \* "\x1b[0m"
BR0K == -2           \* "[0K"
PREFIX == -3         \* the coloured "[name] " prefix
ESC == -4            \* "\x1b" on its own, as in "\x1b[0K"

Statuses == {"created", "pending", "running", "success"}

VARIABLES
    \* ---- TraceRunningJobs / DoTrace
    entry,       \* which function the run calls, by its name
    jobs,        \* TraceRunningJobs: the jobs argument, a sequence of statuses
    tailLine,    \* the tailLine argument
    mpc,         \* position of the TraceRunningJobs caller
    ji,          \* index of the job the range loop of TraceRunningJobs is at
    allDone,     \* TraceRunningJobs: allDone
    wgJobs,      \* TraceRunningJobs: wg counter
    tpc,         \* per job: position of its DoTrace loop
    jobStatus,   \* per job: job.Status held by DoTrace
    offset,      \* per job: offset
    firstTail,   \* per job: firstTail
    srvTrace,    \* per job: the trace file on the server
    srvStatus,   \* per job: the job status on the server
    tickLog,     \* per job: one record per tick: lines seen, strings printed
    statusFetches, \* per job: number of GetJob calls made
    \* ---- getAllGroupProjects / getGroupProjects / getAllSubgroups
    roots,       \* the groups argument
    srvSub,      \* per group: the pages ListDescendantGroups serves
    srvProj,     \* per group: the pages ListGroupProjects serves
    srvAll,      \* the pages ListProjects serves
    srvPaging,   \* how the server sets NextPage: "succ", "forward" or "any"
    cpc,         \* position of the getAllGroupProjects caller
    ri,          \* index of the root the first range loop is at
    optPage,     \* getAllSubgroups: opt.Page
    allSubgroups, \* getAllSubgroups: allSubgroups
    subReqs,     \* per root index: page numbers getAllSubgroups requested
    subFailed,   \* per root index: a ListDescendantGroups request failed
    allGroups,   \* getAllGroupProjects: allGroups
    wi,          \* index of the group the second range loop is at
    wg,          \* getAllGroupProjects: wg counter
    mu,          \* getAllGroupProjects: mu, 0 when free, else the holder
    allProjects, \* getAllGroupProjects: allProjects
    result,      \* the value the called function returned
    wpc,         \* per worker: position of the goroutine
    wGid,        \* per worker: gID
    wPage,       \* per worker: getGroupProjects opt.Page
    projects,    \* per worker: getGroupProjects projects
    wReqs,       \* per worker: page numbers getGroupProjects requested
    wFailed,     \* per worker: a ListGroupProjects request failed
    tmp,         \* per worker: allProjects as read by append
    \* ---- getAllProjects (its allProjects and return value are the
    \*      variables allProjects and result above)
    lpc,         \* position of the getAllProjects caller
    projectsOptPage, \* getAllProjects: projectsOpt.Page
    listReqs,    \* page numbers getAllProjects requested
    listFailed   \* a ListProjects request failed

traceVars == <<entry, jobs, tailLine, mpc, ji, allDone, wgJobs, tpc, jobStatus,
               offset, firstTail, srvTrace, srvStatus, tickLog, statusFetches>>

crawlEnv == <<roots, srvSub, srvProj, srvAll, srvPaging>>
listVars == <<lpc, projectsOptPage, listReqs, listFailed>>
subVars == <<ri, optPage, allSubgroups, subReqs, subFailed, allGroups>>
workerVars == <<wpc, wGid, wPage, projects, wReqs, wFailed, tmp>>
crawlVars == <<crawlEnv, cpc, subVars, wi, wg, mu, allProjects, result,
               workerVars, listVars>>

vars == <<traceVars, crawlVars>>

JobIds == 1..MaxJobs

\* ------------------------------------------------------- pure functions

Max(a, b) == IF a >= b THEN a ELSE b
Min(a, b) == IF a <= b THEN a ELSE b

\* A status test that takes every status for a running one.
IsRunningAny(status) ==
    status # ""

\* A status test that takes only "running" for a running status.
IsRunningStrict(status) ==
    status = "running"

\* IsRunning check job status
IsRunning(status) ==
    status = "created" \/ status = "pending" \/ status = "running"

\* strings.Split(s, "\n"): the pieces between separators; n separators give
\* n+1 pieces, the last one empty when s ends with the separator.
RECURSIVE SplitAcc(_, _, _)
SplitAcc(s, cur, acc) ==
    IF s = <<>> THEN Append(acc, cur)
    ELSE IF Head(s) = NL THEN SplitAcc(Tail(s), <<>>, Append(acc, cur))
    ELSE SplitAcc(Tail(s), Append(cur, Head(s)), acc)

Split(s) == SplitAcc(s, <<>>, <<>>)

\* Positions of a token in a string.
Positions(s, tok) == {i \in 1..Len(s) : s[i] = tok}

SetMin(S) == CHOOSE x \in S : \A y \in S : x <= y
SetMax(S) == CHOOSE x \in S : \A y \in S : x >= y

\* re.ReplaceAllString(s, ``) for re = `\x1b\[0m.*\[0K`: the leftmost match
\* starts at the first ESC[0m that has a [0K after it and, .* being greedy,
\* runs to the last [0K of the string; nothing after it can match again.
ReplaceAll(s) ==
    LET ks == Positions(s, BR0K)
        ms == {i \in Positions(s, ESC0m) : \E k \in ks : k > i}
    IN IF ms = {} THEN s
       ELSE SubSeq(s, 1, SetMin(ms) - 1) \o SubSeq(s, SetMax(ks) + 1, Len(s))

\* The strings one println loop writes for lines[offset:].
RECURSIVE Println(_)
Println(ls) ==
    IF ls = <<>> THEN <<>>
    ELSE <<ReplaceAll(<<PREFIX>> \o Head(ls))>> \o Println(Tail(ls))

\* A window start that is not clamped at 0.
BeginUnclamped(length, tail) == length - tail

\* begin := max(int64(length)-tailLine, 0)
Begin(length, tail) == Max(length - tail, 0)

\* The offset left as it was.
NextOffsetStale(off, length) == off

\* offset = int64(length)
NextOffset(off, length) == length

\* ------------------------------------------------------------ the server

\* The trace the job has written so far, as whole lines.
RECURSIVE TraceOf(_)
TraceOf(n) == IF n = 0 THEN <<>> ELSE TraceOf(n - 1) \o <<n, NL>>

NumLines(buf) == Cardinality(Positions(buf, NL))

Rank(s) == CASE s = "created" -> 0 [] s = "pending" -> 1 [] s = "running" -> 2
             [] OTHER -> 3

TickCap == IF entry = "DoTrace" THEN MaxTicks ELSE MaxTicksJobs

Crashed == \E j \in JobIds : tpc[j] = "panic"

\* The job writes one more whole line to its trace.  Only GetTraceFile reads
\* the trace, so the write is taken while the loop waits for its next tick.
AppendLine(j) ==
    /\ ~Crashed
    /\ tpc[j] = "tick"
    /\ NumLines(srvTrace[j]) < MaxLines
    /\ srvTrace' = [srvTrace EXCEPT ![j] = @ \o <<NumLines(@) + 1, NL>>]
    /\ UNCHANGED <<entry, jobs, tailLine, mpc, ji, allDone, wgJobs, tpc,
                   jobStatus, offset, firstTail, srvStatus, tickLog,
                   statusFetches>>
    /\ UNCHANGED crawlVars

\* The job moves forward in its lifecycle.  Only GetJob reads the status, so
\* the change is taken while the loop is about to call it.
AdvanceStatus(j) ==
    /\ ~Crashed
    /\ tpc[j] = "getjob"
    /\ \E s \in Statuses :
         /\ Rank(s) > Rank(srvStatus[j])
         /\ srvStatus' = [srvStatus EXCEPT ![j] = s]
    /\ UNCHANGED <<entry, jobs, tailLine, mpc, ji, allDone, wgJobs, tpc,
                   jobStatus, offset, firstTail, srvTrace, tickLog,
                   statusFetches>>
    /\ UNCHANGED crawlVars

\* ---------------------------------------------------------------- DoTrace

\* The status of the job the server holds now, as if the test came after
\* GetJob.
StatusTestedFresh(j) == srvStatus[j]

\* job.Status in the test that ends the loop: the status DoTrace holds, the
\* one passed in or the one the last GetJob returned.
StatusTested(j) == jobStatus[j]

\* One tick of the loop up to the call of GetJob: GetTraceFile, Split, the
\* firstTail window, the println loop, offset = length, and the status test
\* with its return.  A loop is followed for TickCap ticks, and for its last
\* tick once it holds a status that ends it.  Each tick is logged: the lines
\* the fetched trace held, the strings printed, and offset at the end of
\* the tick.
Tick(j) ==
    /\ ~Crashed
    /\ tpc[j] = "tick"
    /\ (Len(tickLog[j]) < TickCap \/ ~IsRunning(jobStatus[j]))
    /\ LET all == Split(srvTrace[j])
           length == Len(all)
           begin == Begin(length, tailLine)
           sliceOk == (~firstTail[j]) \/ (0 <= begin /\ begin <= length - 1)
           lines == IF firstTail[j] THEN SubSeq(all, begin + 1, length - 1)
                    ELSE all
           rangeOk == sliceOk /\ offset[j] <= Len(lines)
           out == IF rangeOk THEN Println(SubSeq(lines, offset[j] + 1, Len(lines)))
                  ELSE <<>>
       IN /\ tickLog' = [tickLog EXCEPT ![j] =
                  Append(@, [seen |-> length - 1, out |-> out,
                             off |-> IF rangeOk THEN NextOffset(offset[j], length)
                                     ELSE offset[j]])]
          /\ IF ~rangeOk
             THEN \* slice bounds out of range: the goroutine panics
                  /\ tpc' = [tpc EXCEPT ![j] = "panic"]
                  /\ firstTail' = IF sliceOk THEN [firstTail EXCEPT ![j] = FALSE]
                                  ELSE firstTail
                  /\ UNCHANGED <<offset, wgJobs>>
             ELSE /\ firstTail' = [firstTail EXCEPT ![j] = FALSE]
                  /\ offset' = [offset EXCEPT ![j] = NextOffset(@, length)]
                  /\ IF ~IsRunning(StatusTested(j))
                     THEN \* return nil; under TraceRunningJobs the goroutine
                          \* then calls wg.Done()
                          /\ tpc' = [tpc EXCEPT ![j] = "returned"]
                          /\ wgJobs' = IF entry = "TraceRunningJobs"
                                       THEN wgJobs - 1 ELSE wgJobs
                     ELSE /\ tpc' = [tpc EXCEPT ![j] = "getjob"]
                          /\ UNCHANGED wgJobs
    /\ UNCHANGED <<entry, jobs, tailLine, mpc, ji, allDone, jobStatus,
                   srvTrace, srvStatus, statusFetches>>
    /\ UNCHANGED crawlVars

\* A GetJob whose answer is dropped: the loop keeps the status it held.
GetJobStale(j) ==
    /\ ~Crashed
    /\ tpc[j] = "getjob"
    /\ statusFetches' = [statusFetches EXCEPT ![j] = @ + 1]
    /\ tpc' = [tpc EXCEPT ![j] = "tick"]
    /\ UNCHANGED <<entry, jobs, tailLine, mpc, ji, allDone, wgJobs, offset,
                   firstTail, srvTrace, srvStatus, tickLog, jobStatus>>
    /\ UNCHANGED crawlVars

\* job, _, err = client.Jobs.GetJob(pid, job.ID)
GetJob(j) ==
    /\ ~Crashed
    /\ tpc[j] = "getjob"
    /\ jobStatus' = [jobStatus EXCEPT ![j] = srvStatus[j]]
    /\ statusFetches' = [statusFetches EXCEPT ![j] = @ + 1]
    /\ tpc' = [tpc EXCEPT ![j] = "tick"]
    /\ UNCHANGED <<entry, jobs, tailLine, mpc, ji, allDone, wgJobs, offset,
                   firstTail, srvTrace, srvStatus, tickLog>>
    /\ UNCHANGED crawlVars

\* ------------------------------------------------------- TraceRunningJobs

\* One iteration of the range loop over jobs.
Spawn ==
    /\ ~Crashed
    /\ mpc = "loop"
    /\ ji <= Len(jobs)
    /\ ji' = ji + 1
    /\ IF ~IsRunning(jobs[ji])
       THEN UNCHANGED <<allDone, wgJobs, tpc>>
       ELSE /\ allDone' = FALSE
            /\ wgJobs' = wgJobs + 1
            /\ tpc' = [tpc EXCEPT ![ji] = "tick"]
    /\ UNCHANGED <<entry, jobs, tailLine, mpc, jobStatus, offset, firstTail,
                   srvTrace, srvStatus, tickLog, statusFetches>>
    /\ UNCHANGED crawlVars

\* The loop is over: wg.Wait()
LoopEnd ==
    /\ ~Crashed
    /\ mpc = "loop"
    /\ ji > Len(jobs)
    /\ mpc' = "wait"
    /\ UNCHANGED <<entry, jobs, tailLine, ji, allDone, wgJobs, tpc, jobStatus,
                   offset, firstTail, srvTrace, srvStatus, tickLog,
                   statusFetches>>
    /\ UNCHANGED crawlVars

\* A return that does not wait for the loops.
WaitReturnEarly ==
    /\ ~Crashed
    /\ mpc = "wait"
    /\ mpc' = "returned"
    /\ UNCHANGED <<entry, jobs, tailLine, ji, allDone, wgJobs, tpc, jobStatus,
                   offset, firstTail, srvTrace, srvStatus, tickLog,
                   statusFetches>>
    /\ UNCHANGED crawlVars

\* wg.Wait() returns; return allDone
WaitReturn ==
    /\ ~Crashed
    /\ mpc = "wait"
    /\ wgJobs = 0
    /\ mpc' = "returned"
    /\ UNCHANGED <<entry, jobs, tailLine, ji, allDone, wgJobs, tpc, jobStatus,
                   offset, firstTail, srvTrace, srvStatus, tickLog,
                   statusFetches>>
    /\ UNCHANGED crawlVars

\* ------------------------------------------------- the server's listings

\* The groups on the server: two are enough for a parent with a subgroup, for
\* two unrelated roots, for a repeated root and for a root below another root.
Groups == {1, 2}
Workers == 1..MaxWorkers

\* What one list request for page p answers: the items of the page and
\* resp.NextPage, 0 after the last page.
Resp(pages, p) ==
    [items |-> IF p \in 1..Len(pages) THEN pages[p] ELSE <<>>,
     next |-> IF p < Len(pages) THEN p + 1 ELSE 0]

\* The most requests one listing loop is followed for; a server that counts
\* its pages up never lets a loop get that far.
ReqCap == MaxPages + MaxRevisits

\* The values resp.NextPage can have in the answer for page p.  A server
\* that pages by the book ("succ") names the following page, 0 after the
\* last; one that only moves "forward" names 0 or any later page; "any"
\* server names any page.
NextPages(pages, p) ==
    CASE srvPaging = "succ" -> {Resp(pages, p).next}
      [] srvPaging = "forward" -> {0} \cup {n \in 1..MaxPages : n > p}
      [] OTHER -> 0..MaxPages

\* A list cut in pages of n items; an empty list is one empty page.
RECURSIVE Chunk(_, _)
Chunk(s, n) ==
    IF Len(s) <= n THEN <<s>>
    ELSE <<SubSeq(s, 1, n)>> \o Chunk(SubSeq(s, n + 1, Len(s)), n)

RECURSIVE Flatten(_)
Flatten(pages) ==
    IF pages = <<>> THEN <<>> ELSE Head(pages) \o Flatten(Tail(pages))

\* a..b as a sequence
RECURSIVE Range(_, _)
Range(a, b) == IF a > b THEN <<>> ELSE <<a>> \o Range(a + 1, b)

\* par[g] is the parent group of g, 0 for a top-level group.
Forests == {par \in [Groups -> {0} \cup Groups] : \A g \in Groups : par[g] < g}

RECURSIVE IsDescendant(_, _, _)
IsDescendant(par, h, g) ==
    /\ par[h] # 0
    /\ (par[h] = g \/ IsDescendant(par, par[h], g))

RECURSIVE SeqOfSet(_, _)
SeqOfSet(S, from) ==
    IF \A g \in S : g < from THEN <<>>
    ELSE (IF from \in S THEN <<from>> ELSE <<>>) \o SeqOfSet(S, from + 1)

\* The descendant groups of g, as the flattened list the endpoint serves.
Descendants(par, g) == SeqOfSet({h \in Groups : IsDescendant(par, h, g)}, 1)

\* The paths of the n direct projects of group g.
ProjectsOf(g, n) == [k \in 1..n |-> 10 * g + k]

\* ------------------------------------------------------- getAllSubgroups

\* A failed request that makes getAllSubgroups return nothing.
OnSubgroupsErrorNone(acc) == <<>>

\* if err != nil { utils.PrintErr(err); break } ... return allSubgroups:
\* what getAllSubgroups returns after a failed request.
OnSubgroupsError(acc) == acc

\* One pass of the loop of getAllSubgroups: one ListDescendantGroups request.
\* When the loop ends, getAllGroupProjects appends the result to allGroups
\* and moves to the next root.
SubPage ==
    /\ cpc = "sub"
    /\ Len(subReqs[ri]) < ReqCap
    /\ \E ok \in BOOLEAN, next \in NextPages(srvSub[roots[ri]], optPage) :
        LET resp == [items |-> Resp(srvSub[roots[ri]], optPage).items,
                     next |-> next]
            subs == IF ok THEN allSubgroups \o resp.items
                    ELSE OnSubgroupsError(allSubgroups)
            over == (~ok) \/ resp.next = 0
        IN /\ subReqs' = [subReqs EXCEPT ![ri] = Append(@, optPage)]
           /\ subFailed' = [subFailed EXCEPT ![ri] = ~ok]
           /\ IF ~over
              THEN /\ allSubgroups' = subs
                   /\ optPage' = resp.next
                   /\ UNCHANGED <<cpc, ri, allGroups, result>>
              ELSE /\ allSubgroups' = <<>>
                   /\ optPage' = 1
                   /\ IF entry = "getAllSubgroups"
                      THEN /\ cpc' = "returned"
                           /\ result' = subs
                           /\ UNCHANGED <<ri, allGroups>>
                      ELSE /\ cpc' = "root"
                           /\ ri' = ri + 1
                           /\ allGroups' = allGroups \o subs
                           /\ UNCHANGED result
    /\ UNCHANGED <<crawlEnv, wi, wg, mu, allProjects, workerVars>>
    /\ UNCHANGED <<traceVars, listVars>>

\* --------------------------------------------------- getAllGroupProjects

\* One iteration of the first range loop up to the first request of
\* getAllSubgroups: allGroups = append(allGroups, g).
RootStep ==
    /\ cpc = "root"
    /\ ri <= Len(roots)
    /\ allGroups' = Append(allGroups, roots[ri])
    /\ cpc' = "sub"
    /\ UNCHANGED <<crawlEnv, ri, optPage, allSubgroups, subReqs, subFailed,
                   wi, wg, mu, allProjects, result, workerVars>>
    /\ UNCHANGED <<traceVars, listVars>>

\* The first range loop is over.
RootsDone ==
    /\ cpc = "root"
    /\ ri > Len(roots)
    /\ cpc' = "spawn"
    /\ UNCHANGED <<crawlEnv, subVars, wi, wg, mu, allProjects, result,
                   workerVars>>
    /\ UNCHANGED <<traceVars, listVars>>

\* A goroutine that reads the loop variable instead of its own argument and
\* finds the value of the last iteration there.
SpawnWorkerShared ==
    /\ cpc = "spawn"
    /\ wi <= Len(allGroups)
    /\ wg' = wg + 1
    /\ wpc' = [wpc EXCEPT ![wi] = "fetch"]
    /\ wGid' = [wGid EXCEPT ![wi] = allGroups[Len(allGroups)]]
    /\ wi' = wi + 1
    /\ UNCHANGED <<crawlEnv, cpc, subVars, mu, allProjects, result, wPage,
                   projects, wReqs, wFailed, tmp>>
    /\ UNCHANGED <<traceVars, listVars>>

\* One iteration of the second range loop: wg.Add(1); go func(gID)
SpawnWorker ==
    /\ cpc = "spawn"
    /\ wi <= Len(allGroups)
    /\ wg' = wg + 1
    /\ wpc' = [wpc EXCEPT ![wi] = "fetch"]
    /\ wGid' = [wGid EXCEPT ![wi] = allGroups[wi]]
    /\ wi' = wi + 1
    /\ UNCHANGED <<crawlEnv, cpc, subVars, mu, allProjects, result, wPage,
                   projects, wReqs, wFailed, tmp>>
    /\ UNCHANGED <<traceVars, listVars>>

\* The second range loop is over: wg.Wait()
SpawnDone ==
    /\ cpc = "spawn"
    /\ wi > Len(allGroups)
    /\ cpc' = "wait"
    /\ UNCHANGED <<crawlEnv, subVars, wi, wg, mu, allProjects, result,
                   workerVars>>
    /\ UNCHANGED <<traceVars, listVars>>

\* A return that does not wait for the goroutines.
CrawlReturnEarly ==
    /\ cpc = "wait"
    /\ cpc' = "returned"
    /\ result' = allProjects
    /\ UNCHANGED <<crawlEnv, subVars, wi, wg, mu, allProjects, workerVars>>
    /\ UNCHANGED <<traceVars, listVars>>

\* wg.Wait() returns; return allProjects
CrawlReturn ==
    /\ cpc = "wait"
    /\ wg = 0
    /\ cpc' = "returned"
    /\ result' = allProjects
    /\ UNCHANGED <<crawlEnv, subVars, wi, wg, mu, allProjects, workerVars>>
    /\ UNCHANGED <<traceVars, listVars>>

\* ------------------------------------------------------ getGroupProjects

\* A listing whose error ends the goroutine without wg.Done().
FetchPageFatal(w) ==
    /\ wpc[w] = "fetch"
    /\ Len(wReqs[w]) < ReqCap
    /\ \E ok \in BOOLEAN, next \in NextPages(srvProj[wGid[w]], wPage[w]) :
        LET resp == [items |-> Resp(srvProj[wGid[w]], wPage[w]).items,
                     next |-> next]
            ps == IF ok THEN projects[w] \o resp.items ELSE projects[w]
        IN /\ wReqs' = [wReqs EXCEPT ![w] = Append(@, wPage[w])]
           /\ wFailed' = [wFailed EXCEPT ![w] = ~ok]
           /\ projects' = [projects EXCEPT ![w] = ps]
           /\ wPage' = IF ok /\ resp.next # 0
                       THEN [wPage EXCEPT ![w] = resp.next] ELSE wPage
           /\ wpc' = [wpc EXCEPT ![w] =
                  IF ~ok THEN "dead" ELSE IF resp.next # 0 THEN "fetch" ELSE "lock"]
    /\ UNCHANGED <<crawlEnv, cpc, subVars, wi, wg, mu, allProjects, result,
                   wGid, tmp>>
    /\ UNCHANGED <<traceVars, listVars>>

\* The page left as it was.
AdvancePageStuck(page, next) == page

\* The page before the one the server named.
AdvancePageBack(page, next) == Max(next - 1, 1)

\* opt.Page = resp.NextPage
AdvancePage(page, next) == next

\* One pass of the loop of getGroupProjects: one ListGroupProjects request.
FetchPage(w) ==
    /\ wpc[w] = "fetch"
    /\ Len(wReqs[w]) < ReqCap
    /\ \E ok \in BOOLEAN, next \in NextPages(srvProj[wGid[w]], wPage[w]) :
        LET resp == [items |-> Resp(srvProj[wGid[w]], wPage[w]).items,
                     next |-> next]
            ps == IF ok THEN projects[w] \o resp.items ELSE projects[w]
            over == (~ok) \/ resp.next = 0
        IN /\ wReqs' = [wReqs EXCEPT ![w] = Append(@, wPage[w])]
           /\ wFailed' = [wFailed EXCEPT ![w] = ~ok]
           /\ projects' = [projects EXCEPT ![w] = ps]
           /\ IF ~over
              THEN /\ wPage' = [wPage EXCEPT ![w] = AdvancePage(@, resp.next)]
                   /\ UNCHANGED <<wpc, result>>
              ELSE /\ UNCHANGED wPage
                   /\ IF entry = "getGroupProjects"
                      THEN /\ wpc' = [wpc EXCEPT ![w] = "returned"]
                           /\ result' = ps
                      ELSE /\ wpc' = [wpc EXCEPT ![w] = "lock"]
                           /\ UNCHANGED result
    /\ UNCHANGED <<crawlEnv, cpc, subVars, wi, wg, mu, allProjects, wGid, tmp>>
    /\ UNCHANGED <<traceVars, listVars>>

\* -------------------------------------------------------- getAllProjects

\* projectNameSpaces(projects): the paths of the projects whose namespace
\* is a group, in order.
projectNameSpaces(ps) == SelectSeq(ps, LAMBDA x : x > 0)

\* One pass of the loop of getAllProjects: one ListProjects request.  An
\* error is printed and the pass goes on with ps = nil; the pass indexes
\* projectNameSpaces(ps)[1], the second element, and panics when there are
\* fewer than two.
ListProjects ==
    /\ lpc = "loop"
    /\ Len(listReqs) < ReqCap
    /\ \E ok \in BOOLEAN, next \in NextPages(srvAll, projectsOptPage) :
        LET ps == IF ok THEN Resp(srvAll, projectsOptPage).items ELSE <<>>
            ns == projectNameSpaces(ps)
        IN /\ listReqs' = Append(listReqs, projectsOptPage)
           /\ listFailed' = ~ok
           /\ allProjects' = allProjects \o ns
           /\ IF Len(ns) < 2
              THEN \* index out of range [1]
                   /\ lpc' = "panic"
                   /\ UNCHANGED <<projectsOptPage, result>>
              ELSE IF next = 0
              THEN /\ lpc' = "returned"
                   /\ result' = allProjects'
                   /\ UNCHANGED projectsOptPage
              ELSE /\ projectsOptPage' = next
                   /\ UNCHANGED <<lpc, result>>
    /\ UNCHANGED <<crawlEnv, cpc, subVars, wi, wg, mu, workerVars>>
    /\ UNCHANGED traceVars

\* -------------------------------------- the goroutine after the listing

\* A Lock that does not wait for the holder of mu.
LockFree(w) ==
    /\ wpc[w] = "lock"
    /\ mu' = w
    /\ wpc' = [wpc EXCEPT ![w] = "append"]
    /\ UNCHANGED <<crawlEnv, cpc, subVars, wi, wg, allProjects, result, wGid,
                   wPage, projects, wReqs, wFailed, tmp>>
    /\ UNCHANGED <<traceVars, listVars>>

\* mu.Lock()
Lock(w) ==
    /\ wpc[w] = "lock"
    /\ mu = 0
    /\ mu' = w
    /\ wpc' = [wpc EXCEPT ![w] = "append"]
    /\ UNCHANGED <<crawlEnv, cpc, subVars, wi, wg, allProjects, result, wGid,
                   wPage, projects, wReqs, wFailed, tmp>>
    /\ UNCHANGED <<traceVars, listVars>>

\* append(allProjects, projects...): the read of allProjects.  append is not
\* atomic: it reads the slice, then the assignment writes the grown one.
AppendRead(w) ==
    /\ wpc[w] = "append"
    /\ tmp' = [tmp EXCEPT ![w] = allProjects]
    /\ wpc' = [wpc EXCEPT ![w] = "store"]
    /\ UNCHANGED <<crawlEnv, cpc, subVars, wi, wg, mu, allProjects, result,
                   wGid, wPage, projects, wReqs, wFailed>>
    /\ UNCHANGED <<traceVars, listVars>>

\* allProjects = append(...): the write of allProjects
AppendStore(w) ==
    /\ wpc[w] = "store"
    /\ allProjects' = tmp[w] \o projects[w]
    /\ tmp' = [tmp EXCEPT ![w] = <<>>]
    /\ wpc' = [wpc EXCEPT ![w] = "unlock"]
    /\ UNCHANGED <<crawlEnv, cpc, subVars, wi, wg, mu, result, wGid, wPage,
                   projects, wReqs, wFailed>>
    /\ UNCHANGED <<traceVars, listVars>>

\* mu.Unlock()
Unlock(w) ==
    /\ wpc[w] = "unlock"
    /\ mu' = 0
    /\ wpc' = [wpc EXCEPT ![w] = "sleep"]
    /\ UNCHANGED <<crawlEnv, cpc, subVars, wi, wg, allProjects, result, wGid,
                   wPage, projects, wReqs, wFailed, tmp>>
    /\ UNCHANGED <<traceVars, listVars>>

\* time.Sleep(throttle), then the deferred wg.Done()
Exit(w) ==
    /\ wpc[w] = "sleep"
    /\ wg' = wg - 1
    /\ wpc' = [wpc EXCEPT ![w] = "done"]
    /\ UNCHANGED <<crawlEnv, cpc, subVars, wi, mu, allProjects, result, wGid,
                   wPage, projects, wReqs, wFailed, tmp>>
    /\ UNCHANGED <<traceVars, listVars>>

\* ------------------------------------------------------------------ Init

\* getAllProjects is not running.
ListIdle ==
    /\ lpc = "idle" /\ projectsOptPage = 1
    /\ listReqs = <<>> /\ listFailed = FALSE

\* The crawler is not running.
CrawlIdle ==
    /\ roots = <<>>
    /\ srvSub = [g \in Groups |-> <<<<>>>>]
    /\ srvProj = [g \in Groups |-> <<<<>>>>]
    /\ srvAll = <<<<>>>> /\ srvPaging = "succ"
    /\ ListIdle
    /\ cpc = "idle" /\ ri = 1 /\ optPage = 1 /\ allSubgroups = <<>>
    /\ subReqs = [i \in Workers |-> <<>>]
    /\ subFailed = [i \in Workers |-> FALSE]
    /\ allGroups = <<>> /\ wi = 1 /\ wg = 0 /\ mu = 0
    /\ allProjects = <<>> /\ result = <<>>
    /\ wpc = [w \in Workers |-> "idle"]
    /\ wGid = [w \in Workers |-> 0]
    /\ wPage = [w \in Workers |-> 1]
    /\ projects = [w \in Workers |-> <<>>]
    /\ wReqs = [w \in Workers |-> <<>>]
    /\ wFailed = [w \in Workers |-> FALSE]
    /\ tmp = [w \in Workers |-> <<>>]

\* The streamer is not running.
TraceIdle ==
    /\ jobs = <<>> /\ tailLine = 1
    /\ mpc = "none" /\ ji = 1 /\ allDone = TRUE /\ wgJobs = 0
    /\ tpc = [j \in JobIds |-> "idle"]
    /\ jobStatus = [j \in JobIds |-> "created"]
    /\ offset = [j \in JobIds |-> 0]
    /\ firstTail = [j \in JobIds |-> TRUE]
    /\ srvTrace = [j \in JobIds |-> <<>>]
    /\ srvStatus = [j \in JobIds |-> "created"]
    /\ tickLog = [j \in JobIds |-> <<>>]
    /\ statusFetches = [j \in JobIds |-> 0]

\* Sequences over S of length 0..n.
SeqsUpTo(S, n) == UNION {[1..k -> S] : k \in 0..n}

\* The number of entries allGroups gets when no request fails.
RECURSIVE FanOut(_, _)
FanOut(par, rs) ==
    IF rs = <<>> THEN 0
    ELSE 1 + Len(Descendants(par, Head(rs))) + FanOut(par, Tail(rs))

\* getAllGroupProjects(client, groups...): up to MaxRoots roots over any
\* hierarchy that need at most MaxWorkers goroutines.  The descendants of a group are served
\* in pages of one group, the MaxPerPage direct projects of a group on two
\* pages, the last one holding one project.
InitCrawl ==
    /\ entry = "getAllGroupProjects"
    /\ TraceIdle
    /\ \E par \in Forests :
         /\ roots \in SeqsUpTo(Groups, MaxRoots)
         /\ FanOut(par, roots) <= MaxWorkers
         /\ srvSub = [g \in Groups |-> Chunk(Descendants(par, g), 1)]
         /\ srvProj = [g \in Groups |-> Chunk(ProjectsOf(g, MaxPerPage), MaxPerPage - 1)]
    /\ srvAll = <<<<>>>> /\ srvPaging = "succ"
    /\ ListIdle
    /\ cpc = "root" /\ ri = 1 /\ optPage = 1 /\ allSubgroups = <<>>
    /\ subReqs = [i \in Workers |-> <<>>]
    /\ subFailed = [i \in Workers |-> FALSE]
    /\ allGroups = <<>> /\ wi = 1 /\ wg = 0 /\ mu = 0
    /\ allProjects = <<>> /\ result = <<>>
    /\ wpc = [w \in Workers |-> "idle"]
    /\ wGid = [w \in Workers |-> 0]
    /\ wPage = [w \in Workers |-> 1]
    /\ projects = [w \in Workers |-> <<>>]
    /\ wReqs = [w \in Workers |-> <<>>]
    /\ wFailed = [w \in Workers |-> FALSE]
    /\ tmp = [w \in Workers |-> <<>>]

\* Page sizes of a listing: 1..MaxPages pages of 0..MaxPerPage items.
PageSizes == UNION {[1..k -> 0..MaxPerPage] : k \in 1..MaxPages}

\* The pages with these sizes, the items numbered in listing order.
RECURSIVE PagesOf(_, _)
PagesOf(sizes, from) ==
    IF sizes = <<>> THEN <<>>
    ELSE <<Range(from, from + Head(sizes) - 1)>>
         \o PagesOf(Tail(sizes), from + Head(sizes))

\* A project in a user namespace is a negative number, one in a group
\* namespace a positive one.  The listings ListProjects can serve: those of
\* PagesOf with at most one project in a user namespace.
UserMarks(sizes) == 0..Len(Flatten(PagesOf(sizes, 1)))

MarkUser(pages, u) ==
    [k \in 1..Len(pages) |->
        [i \in 1..Len(pages[k]) |->
            IF pages[k][i] = u THEN 0 - u ELSE pages[k][i]]]

\* One of the three listing loops called on its own: the pages the server
\* holds for it and the start of the loop.
InitListing(pages) ==
    /\ TraceIdle
    /\ roots = <<1>>
    /\ srvSub = [g \in Groups |-> IF g = 1 /\ entry = "getAllSubgroups"
                                  THEN pages ELSE <<<<>>>>]
    /\ srvProj = [g \in Groups |-> IF g = 1 /\ entry = "getGroupProjects"
                                   THEN pages ELSE <<<<>>>>]
    /\ srvAll = IF entry = "getAllProjects" THEN pages ELSE <<<<>>>>
    /\ cpc = IF entry = "getAllSubgroups" THEN "sub" ELSE "idle"
    /\ ri = 1 /\ optPage = 1 /\ allSubgroups = <<>>
    /\ subReqs = [i \in Workers |-> <<>>]
    /\ subFailed = [i \in Workers |-> FALSE]
    /\ allGroups = <<>> /\ wi = 1 /\ wg = 0 /\ mu = 0
    /\ allProjects = <<>> /\ result = <<>>
    /\ wpc = [w \in Workers |-> IF w = 1 /\ entry = "getGroupProjects"
                                THEN "fetch" ELSE "idle"]
    /\ wGid = [w \in Workers |-> IF w = 1 THEN 1 ELSE 0]
    /\ wPage = [w \in Workers |-> 1]
    /\ projects = [w \in Workers |-> <<>>]
    /\ wReqs = [w \in Workers |-> <<>>]
    /\ wFailed = [w \in Workers |-> FALSE]
    /\ tmp = [w \in Workers |-> <<>>]
    /\ lpc = IF entry = "getAllProjects" THEN "loop" ELSE "idle"
    /\ projectsOptPage = 1 /\ listReqs = <<>> /\ listFailed = FALSE

\* getGroupProjects(client, 1), getAllSubgroups(client, 1) or
\* getAllProjects(client, syncAll, n) called on a listing of any pages, the
\* server paging by the book.
InitPage ==
    /\ entry \in {"getGroupProjects", "getAllSubgroups", "getAllProjects"}
    /\ srvPaging = "succ"
    /\ \E sizes \in PageSizes :
         \E u \in (IF entry = "getAllProjects" THEN UserMarks(sizes) ELSE {0}) :
             InitListing(MarkUser(PagesOf(sizes, 1), u))

\* getGroupProjects(client, 1) or getAllSubgroups(client, 1) called on a
\* listing of MaxPages pages of one item, the server free in the NextPage
\* it answers.
InitPageAny ==
    /\ entry \in {"getGroupProjects", "getAllSubgroups"}
    /\ srvPaging \in {"forward", "any"}
    /\ InitListing(PagesOf([k \in 1..MaxPages |-> 1], 1))

\* A server with three groups in a chain, 2 below 1 and 3 below 2, so that
\* the descendants of group 1 fill two pages of one group and those of
\* group 2 one page; every group has one direct project.
ResolveGroups == {1, 2, 3}

ResolveSub == [g \in ResolveGroups |-> Chunk(Range(g + 1, 3), 1)]

\* The goroutines a crawl over these groups can need.
ResolveWorkers == 1..5

\* The number of entries allGroups gets when no request fails.
RECURSIVE ResolveFanOut(_)
ResolveFanOut(rs) ==
    IF rs = <<>> THEN 0
    ELSE 1 + Len(Flatten(ResolveSub[Head(rs)])) + ResolveFanOut(Tail(rs))

\* getAllGroupProjects(client, groups...) on that server: up to MaxRoots
\* different roots that need at most five goroutines (a root given twice is
\* part of InitCrawl).
InitResolve ==
    /\ entry = "getAllGroupProjects"
    /\ TraceIdle
    /\ roots \in SeqsUpTo(ResolveGroups, MaxRoots)
    /\ \A a, b \in 1..Len(roots) : a # b => roots[a] # roots[b]
    /\ ResolveFanOut(roots) <= Cardinality(ResolveWorkers)
    /\ srvSub = ResolveSub
    /\ srvProj = [g \in ResolveGroups |-> <<ProjectsOf(g, 1)>>]
    /\ srvAll = <<<<>>>> /\ srvPaging = "succ"
    /\ ListIdle
    /\ cpc = "root" /\ ri = 1 /\ optPage = 1 /\ allSubgroups = <<>>
    /\ subReqs = [i \in ResolveWorkers |-> <<>>]
    /\ subFailed = [i \in ResolveWorkers |-> FALSE]
    /\ allGroups = <<>> /\ wi = 1 /\ wg = 0 /\ mu = 0
    /\ allProjects = <<>> /\ result = <<>>
    /\ wpc = [w \in ResolveWorkers |-> "idle"]
    /\ wGid = [w \in ResolveWorkers |-> 0]
    /\ wPage = [w \in ResolveWorkers |-> 1]
    /\ projects = [w \in ResolveWorkers |-> <<>>]
    /\ wReqs = [w \in ResolveWorkers |-> <<>>]
    /\ wFailed = [w \in ResolveWorkers |-> FALSE]
    /\ tmp = [w \in ResolveWorkers |-> <<>>]

NextResolve ==
    \/ RootStep
    \/ SubPage
    \/ RootsDone
    \/ SpawnWorker
    \/ SpawnDone
    \/ CrawlReturn
    \/ \E w \in ResolveWorkers : FetchPage(w)
    \/ \E w \in ResolveWorkers : Lock(w)
    \/ \E w \in ResolveWorkers : AppendRead(w)
    \/ \E w \in ResolveWorkers : AppendStore(w)
    \/ \E w \in ResolveWorkers : Unlock(w)
    \/ \E w \in ResolveWorkers : Exit(w)

SpecResolve == InitResolve /\ [][NextResolve]_vars

NextCrawl ==
    \/ RootStep
    \/ SubPage
    \/ RootsDone
    \/ SpawnWorker
    \/ SpawnDone
    \/ CrawlReturn
    \/ \E w \in Workers : FetchPage(w)
    \/ \E w \in Workers : Lock(w)
    \/ \E w \in Workers : AppendRead(w)
    \/ \E w \in Workers : AppendStore(w)
    \/ \E w \in Workers : Unlock(w)
    \/ \E w \in Workers : Exit(w)

NextPage ==
    \/ SubPage
    \/ \E w \in Workers : FetchPage(w)
    \/ ListProjects

NextPageAny ==
    \/ SubPage
    \/ \E w \in Workers : FetchPage(w)

SpecCrawl == InitCrawl /\ [][NextCrawl]_vars
SpecPage == InitPage /\ [][NextPage]_vars
SpecPageAny == InitPageAny /\ [][NextPageAny]_vars


\* Sequences of statuses of length 0..n.
StatusSeqs(n) == UNION {[1..k -> Statuses] : k \in 0..n}

\* The server's status is the one the caller saw or a later one.
LaterOrSame(s) == {t \in Statuses : t = s \/ Rank(t) > Rank(s)}

\* DoTrace(client, pid, job, tailLine) called on one job.
InitTrace ==
    /\ entry = "DoTrace"
    /\ CrawlIdle
    /\ \E s \in Statuses : jobs = <<s>>
    /\ tailLine \in 0..MaxTail
    /\ mpc = "none" /\ ji = 1 /\ allDone = TRUE /\ wgJobs = 0
    /\ tpc = [j \in JobIds |-> IF j = 1 THEN "tick" ELSE "idle"]
    /\ jobStatus = [j \in JobIds |-> IF j = 1 THEN jobs[1] ELSE "created"]
    /\ offset = [j \in JobIds |-> 0]
    /\ firstTail = [j \in JobIds |-> TRUE]
    /\ \E n \in 0..MaxLines :
         srvTrace = [j \in JobIds |-> IF j = 1 THEN TraceOf(n) ELSE <<>>]
    /\ \E t \in LaterOrSame(jobs[1]) :
         srvStatus = [j \in JobIds |-> IF j = 1 THEN t ELSE "created"]
    /\ tickLog = [j \in JobIds |-> <<>>]
    /\ statusFetches = [j \in JobIds |-> 0]

\* TraceRunningJobs(client, pid, jobs, tailLine)
InitJobs ==
    /\ entry = "TraceRunningJobs"
    /\ CrawlIdle
    /\ jobs \in StatusSeqs(MaxJobs)
    /\ tailLine = MaxTail
    /\ mpc = "loop" /\ ji = 1 /\ allDone = TRUE /\ wgJobs = 0
    /\ tpc = [j \in JobIds |-> "idle"]
    /\ jobStatus = [j \in JobIds |-> IF j <= Len(jobs) THEN jobs[j] ELSE "created"]
    /\ offset = [j \in JobIds |-> 0]
    /\ firstTail = [j \in JobIds |-> TRUE]
    /\ srvTrace = [j \in JobIds |-> TraceOf(MaxLines)]
    /\ srvStatus = jobStatus
    /\ tickLog = [j \in JobIds |-> <<>>]
    /\ statusFetches = [j \in JobIds |-> 0]

\* What a raw trace line is made of: two pieces of text and the control
\* sequences the regular expression looks at.
RawTokens == {1, 2, ESC0m, ESC, BR0K}

RawLines == UNION {[1..k -> RawTokens] : k \in 0..MaxLineLen}

\* DoTrace(client, pid, job, 2) called on a finished job whose trace is one
\* raw line: the first tick prints the line and returns.
InitStrip ==
    /\ entry = "DoTrace"
    /\ CrawlIdle
    /\ jobs = <<"success">>
    /\ tailLine = 2
    /\ mpc = "none" /\ ji = 1 /\ allDone = TRUE /\ wgJobs = 0
    /\ tpc = [j \in JobIds |-> IF j = 1 THEN "tick" ELSE "idle"]
    /\ jobStatus = [j \in JobIds |-> IF j = 1 THEN "success" ELSE "created"]
    /\ offset = [j \in JobIds |-> 0]
    /\ firstTail = [j \in JobIds |-> TRUE]
    /\ \E line \in RawLines :
         srvTrace = [j \in JobIds |-> IF j = 1 THEN line \o <<NL>> ELSE <<>>]
    /\ srvStatus = jobStatus
    /\ tickLog = [j \in JobIds |-> <<>>]
    /\ statusFetches = [j \in JobIds |-> 0]

NextStrip ==
    \E j \in JobIds : Tick(j)

SpecStrip == InitStrip /\ [][NextStrip]_vars

NextTrace ==
    \/ \E j \in JobIds : Tick(j)
    \/ \E j \in JobIds : GetJob(j)
    \/ \E j \in JobIds : AppendLine(j)
    \/ \E j \in JobIds : AdvanceStatus(j)

NextJobs ==
    \/ Spawn
    \/ LoopEnd
    \/ WaitReturn
    \/ \E j \in JobIds : Tick(j)
    \/ \E j \in JobIds : GetJob(j)
    \/ \E j \in JobIds : AdvanceStatus(j)

SpecTrace == InitTrace /\ [][NextTrace]_vars

\* The same run with a ticker that keeps firing and calls that come back:
\* a loop that waits for a tick gets its tick, a GetJob under way returns.
SpecTraceLive ==
    /\ InitTrace
    /\ [][NextTrace]_vars
    /\ \A j \in JobIds : WF_vars(Tick(j)) /\ WF_vars(GetJob(j))
SpecJobs == InitJobs /\ [][NextJobs]_vars

\* =================================================================
\* Properties of DoTrace (SpecTrace: one job, DoTrace called directly)
\* =================================================================

RunningSet == {"created", "pending", "running"}

\* The strings DoTrace has printed for job j, over all its ticks.
RECURSIVE OutOf(_)
OutOf(log) == IF log = <<>> THEN <<>> ELSE Head(log).out \o OutOf(Tail(log))

Printed(j) == OutOf(tickLog[j])

\* What println writes for trace line i.
LineText(i) == <<PREFIX, i>>

\* The trace lines among the printed strings, in print order.
PrintedIds(j) ==
    LET out == Printed(j)
    IN SelectSeq(out, LAMBDA x : Len(x) = 2)

\* Lines the trace held at tick t of job j.
Seen(j, t) == tickLog[j][t].seen

\* C1: with tailLine >= 1 and a trace that grows by whole lines, every line
\* appended after the first poll and seen by a later poll has been printed
\* when DoTrace returns.
C1_NoLineLost ==
    \A j \in JobIds :
        (tailLine >= 1 /\ tpc[j] = "returned") =>
            \A i \in (Seen(j, 1) + 1)..Seen(j, Len(tickLog[j])) :
                \E k \in 1..Len(Printed(j)) : Printed(j)[k] = LineText(i)

\* C2: no trace line is printed twice, the printed lines are in trace order,
\* and on every tick after the first the number of strings printed equals the
\* number of lines appended since the previous tick.
C2_NoDupNoReorder ==
    \A j \in JobIds :
        /\ \A a, b \in 1..Len(PrintedIds(j)) :
               a < b => PrintedIds(j)[a][2] < PrintedIds(j)[b][2]
        /\ \A t \in 2..Len(tickLog[j]) :
               tpc[j] # "panic" =>
                   Len(tickLog[j][t].out) = Seen(j, t) - Seen(j, t - 1)

\* A run whose second tick found two or more appended lines after a first
\* tick that printed something.
C2_Witness ==
    (\E j \in JobIds :
        /\ Len(tickLog[j]) >= 2
        /\ tickLog[j][1].out # <<>>
        /\ Seen(j, 2) - Seen(j, 1) >= 2
        /\ Len(PrintedIds(j)) >= 2)

\* The last n lines of a trace of l lines, as printed.
TailText(l, n) == [k \in 1..n |-> LineText(l - n + k)]

\* C3: the first poll prints exactly the last min(tailLine, L) lines of the
\* L lines the trace holds, and a later poll that finds k appended lines
\* prints exactly those k lines.
C3_TailWindow ==
    \A j \in JobIds :
        (tailLine >= 1 /\ Len(tickLog[j]) >= 1) =>
            /\ tickLog[j][1].out = TailText(Seen(j, 1), Min(tailLine, Seen(j, 1)))
            /\ \A t \in 2..Len(tickLog[j]) :
                   tickLog[j][t].out =
                       TailText(Seen(j, t), Seen(j, t) - Seen(j, t - 1))

\* C4 as stated: once GetJob has returned a status outside the running set,
\* DoTrace fetches the trace no more: it has made as many trace fetches as
\* status fetches, one of each per tick.
C4_NoFetchAfterTerminal ==
    \A j \in JobIds :
        (statusFetches[j] > 0 /\ jobStatus[j] \notin RunningSet) =>
            Len(tickLog[j]) = statusFetches[j]

\* C4 (amended): once GetJob has returned a status outside the running set,
\* DoTrace makes no further status fetch and exactly one further trace
\* fetch: it is waiting for the next tick, or it has returned at the end of
\* that tick.
C4_OneMoreTick ==
    \A j \in JobIds :
        (statusFetches[j] > 0 /\ jobStatus[j] \notin RunningSet) =>
            \/ tpc[j] = "tick" /\ Len(tickLog[j]) = statusFetches[j]
            \/ tpc[j] = "returned" /\ Len(tickLog[j]) = statusFetches[j] + 1

\* A loop that returned after GetJob had told it the job was over.
C4_Witness ==
    (\E j \in JobIds :
        /\ statusFetches[j] > 0
        /\ jobStatus[j] \notin RunningSet
        /\ tpc[j] = "returned")

\* =================================================================
\* Properties of TraceRunningJobs (SpecJobs)
\* =================================================================

\* C10: TraceRunningJobs starts a DoTrace loop for exactly the input jobs
\* whose status is in the running set, returns only after every started loop
\* has returned, and returns true iff no input job was in that set.
C10_TraceRunningJobs ==
    /\ mpc \in {"wait", "returned"} =>
          \A j \in JobIds :
              (tpc[j] # "idle") <=> (j <= Len(jobs) /\ jobs[j] \in RunningSet)
    /\ mpc = "returned" =>
          /\ \A j \in JobIds : tpc[j] \in {"idle", "returned"}
          /\ allDone <=> (\A j \in 1..Len(jobs) : jobs[j] \notin RunningSet)

\* TraceRunningJobs returned false after two loops it started had returned.
C10_Witness ==
    (/\ mpc = "returned"
      /\ ~allDone
      /\ Cardinality({j \in JobIds : tpc[j] = "returned"}) >= 2)

\* =================================================================
\* Properties of getAllGroupProjects (SpecCrawl)
\* =================================================================

\* Occurrences of x in the sequence s.
CountIn(s, x) == Cardinality({i \in 1..Len(s) : s[i] = x})

\* The goroutines that ran the project listing of group g.
Listers(g) == {w \in Workers : wGid[w] = g /\ wReqs[w] # <<>>}

\* C5 as stated: the direct-project listing runs exactly once for each
\* GroupID in allGroups: never by two goroutines, and by one when the
\* function returns.
C5_OncePerGroupID ==
    \A g \in Groups :
        /\ Cardinality(Listers(g)) <= 1
        /\ (cpc = "returned" /\ CountIn(allGroups, g) > 0) =>
               Cardinality(Listers(g)) = 1

\* C5 (amended): the listing runs exactly once for each entry of allGroups,
\* so a GroupID is listed as many times as it occurs in allGroups (once when
\* it occurs once), by the goroutine of that entry, and no entry is skipped.
C5_OncePerEntry ==
    /\ \A w \in Workers :
           wpc[w] # "idle" => (w <= Len(allGroups) /\ wGid[w] = allGroups[w])
    /\ \A g \in Groups : Cardinality(Listers(g)) <= CountIn(allGroups, g)
    /\ cpc = "returned" =>
           /\ \A w \in 1..Len(allGroups) :
                  /\ wGid[w] = allGroups[w]
                  /\ wReqs[w] # <<>>
                  /\ wReqs[w] = Range(1, Len(wReqs[w]))
           /\ \A g \in Groups :
                  Cardinality(Listers(g)) = CountIn(allGroups, g)

\* A crawl that returned with a root listed below another root: the group
\* occurs twice in allGroups.
C5_Witness ==
    /\ cpc = "returned"
    /\ allGroups = <<1, 2, 2>>
    /\ roots = <<1, 2>>

\* The items of the lists the goroutines 1..n got from getGroupProjects that
\* are equal to x.
RECURSIVE CountListed(_, _)
CountListed(n, x) ==
    IF n = 0 THEN 0 ELSE CountIn(projects[n], x) + CountListed(n - 1, x)

RECURSIVE LenListed(_)
LenListed(n) == IF n = 0 THEN 0 ELSE Len(projects[n]) + LenListed(n - 1)

ProjectPaths == {10 * g + k : g \in Groups, k \in 1..MaxPerPage}

\* C6: getAllGroupProjects returns only after every goroutine it started has
\* appended its list, and the list it returns is, as a multiset, the sum of
\* the lists getGroupProjects returned to the goroutines.
C6_JoinNoLostUpdate ==
    cpc = "returned" =>
        /\ \A w \in Workers : wpc[w] = IF w <= Len(allGroups) THEN "done" ELSE "idle"
        /\ Len(result) = LenListed(MaxWorkers)
        /\ \A x \in ProjectPaths : CountIn(result, x) = CountListed(MaxWorkers, x)

\* A crawl of three goroutines that returned all their projects.
C6_Witness ==
    /\ cpc = "returned"
    /\ Len(allGroups) = 3
    /\ \A w \in 1..3 : Len(projects[w]) = MaxPerPage
    /\ Len(result) = 3 * MaxPerPage

InSection(w) == wpc[w] \in {"append", "store", "unlock"}

\* C7: at most one goroutine is between mu.Lock and mu.Unlock and it holds
\* mu; allProjects is written only by the goroutine in that section; the
\* caller reads allProjects for its return value after all sections ended.
C7_MutualExclusion ==
    /\ [](/\ \A v, w \in Workers : (InSection(v) /\ InSection(w)) => v = w
          /\ \A w \in Workers : InSection(w) <=> mu = w
          /\ cpc = "returned" =>
                 \A w \in Workers : wpc[w] \in {"idle", "sleep", "done"})
    /\ [][allProjects' # allProjects =>
             \E w \in Workers : wpc[w] = "store" /\ mu = w]_vars

\* One goroutine is in the section while another waits for mu with a list to
\* append.
C7_Witness ==
    \E v, w \in Workers :
        /\ InSection(v) /\ mu = v
        /\ allProjects # <<>>
        /\ wpc[w] = "lock" /\ projects[w] # <<>>

\* The goroutines whose listing succeeded and holds x.
Holders(x) ==
    {w \in Workers : /\ wpc[w] # "idle"
                     /\ ~wFailed[w]
                     /\ CountIn(Flatten(srvProj[wGid[w]]), x) > 0}

\* The goroutines whose listing failed after its first page.
FailedLate == {w \in Workers : wFailed[w] /\ Len(wReqs[w]) > 1}

\* C8: a failing listing does not stop the crawl: until it returns some step
\* is enabled, and it returns after all goroutines are done; what it returns
\* holds every project of every group whose listing succeeded, and exactly
\* those when the failing listings failed on their first page.
C8_PartialFailure ==
    /\ (entry = "getAllGroupProjects" /\ cpc # "returned") => ENABLED NextCrawl
    /\ cpc = "returned" =>
           /\ \A w \in 1..Len(allGroups) : wpc[w] = "done"
           /\ \A x \in ProjectPaths :
                  /\ CountIn(result, x) >= Cardinality(Holders(x))
                  /\ FailedLate = {} =>
                         CountIn(result, x) = Cardinality(Holders(x))

\* Root 1 with subgroup 2: the listing of group 2 failed, that of group 1
\* did not, and the crawl returned the projects of group 1.
C8_Witness ==
    /\ cpc = "returned"
    /\ allGroups = <<1, 2>>
    /\ ~wFailed[1] /\ wFailed[2] /\ wReqs[2] = <<1>>
    /\ result = ProjectsOf(1, MaxPerPage)

\* =================================================================
\* Properties of getGroupProjects and getAllSubgroups (SpecPage)
\* =================================================================

\* C9: the loop asks for page 1, 2, 3, ... each once, and when no request
\* failed it ends after the page whose NextPage is 0 and returns the items of
\* all pages in order; it can always go on until it returns.
C9_Pagination ==
    /\ entry = "getGroupProjects" =>
           /\ wReqs[1] = Range(1, Len(wReqs[1]))
           /\ Len(wReqs[1]) <= Len(srvProj[1])
           /\ wpc[1] # "returned" => ENABLED FetchPage(1)
           /\ (wpc[1] = "returned" /\ ~wFailed[1]) =>
                  /\ Len(wReqs[1]) = Len(srvProj[1])
                  /\ result = Flatten(srvProj[1])
    /\ entry = "getAllSubgroups" =>
           /\ subReqs[1] = Range(1, Len(subReqs[1]))
           /\ Len(subReqs[1]) <= Len(srvSub[1])
           /\ cpc # "returned" => ENABLED SubPage
           /\ (cpc = "returned" /\ ~subFailed[1]) =>
                  /\ Len(subReqs[1]) = Len(srvSub[1])
                  /\ result = Flatten(srvSub[1])

\* getGroupProjects returned the five items of three pages of 2, 2 and 1.
C9_Witness ==
    /\ entry = "getGroupProjects"
    /\ wpc[1] = "returned" /\ ~wFailed[1]
    /\ srvProj[1] = <<<<1, 2>>, <<3, 4>>, <<5>>>>
    /\ result = <<1, 2, 3, 4, 5>>

\* =================================================================
\* Properties of the control-sequence stripping (SpecStrip)
\* =================================================================

\* The artifact: "\x1b[0m" immediately followed by "\x1b[0K".
Artifact == <<ESC0m, ESC, BR0K>>

\* s with every occurrence of the artifact taken out and nothing else.
RECURSIVE StripArtifacts(_)
StripArtifacts(s) ==
    IF s = <<>> THEN <<>>
    ELSE IF Len(s) >= 3 /\ SubSeq(s, 1, 3) = Artifact
         THEN StripArtifacts(SubSeq(s, 4, Len(s)))
         ELSE <<Head(s)>> \o StripArtifacts(Tail(s))

\* The raw line the trace of job j holds.
RawLine(j) == Split(srvTrace[j])[1]

\* C11: a printed line is the prefix and the raw line with each occurrence
\* of the artifact removed and every other character kept, in order: text
\* between an ESC[0m and a later [0K is printed.
C11_StripArtifact ==
    \A j \in JobIds :
        tpc[j] = "returned" =>
            Printed(j) = <<StripArtifacts(<<PREFIX>> \o RawLine(j))>>

\* =================================================================
\* Properties of the cursor and the exits of DoTrace (SpecTrace)
\* =================================================================

\* The number of strings job j's loop has printed up to the end of tick t.
PrintedUpTo(j, t) == Len(OutOf(SubSeq(tickLog[j], 1, t)))

\* offset at the end of tick t of job j, 0 before the first tick.
OffsetAt(j, t) == IF t = 0 THEN 0 ELSE tickLog[j][t].off

\* C12: at the end of every tick offset is not below its value at the end
\* of the previous tick and equals the number of lines printed so far.
C12_OffsetIsPrinted ==
    \A j \in JobIds :
        tpc[j] # "panic" =>
            \A t \in 1..Len(tickLog[j]) :
                /\ OffsetAt(j, t) >= OffsetAt(j, t - 1)
                /\ OffsetAt(j, t) = PrintedUpTo(j, t)

\* =================================================================
\* Properties of the page cursor under any server (SpecPageAny)
\* =================================================================

\* Each element of s is larger than the one before.
StrictlyIncreasing(s) == \A a, b \in 1..Len(s) : a < b => s[a] < s[b]

\* The page numbers the loop under way has requested.
Requested == IF entry = "getGroupProjects" THEN wReqs[1] ELSE subReqs[1]

\* C13 as stated: whatever the server answers, the requested page number
\* strictly increases from one request to the next.
C13_NeverRevisit ==
    StrictlyIncreasing(Requested)

\* C13 (amended): when every answer names as NextPage 0 or a page after the
\* one requested, the loop starts at page 1, the requested page number
\* strictly increases and no page is requested twice.
C13_ForwardOnly ==
    srvPaging = "forward" =>
        /\ StrictlyIncreasing(Requested)
        /\ Requested # <<>> => Requested[1] = 1

\* A loop that skipped page 2 because the server named page 3 after page 1.
C13_Witness ==
    /\ srvPaging = "forward"
    /\ Requested = <<1, 3>>
    /\ (wpc[1] = "returned" \/ cpc = "returned")

\* =================================================================
\* Properties of a failed page request (SpecPage)
\* =================================================================

\* The items of the first n pages.
FirstPages(pages, n) == Flatten(SubSeq(pages, 1, n))

\* C14: when the request for page k fails, each of the three loops makes no
\* further request and the function returns the items of pages 1..k-1.
C14_ErrorStops ==
    /\ (entry = "getGroupProjects" /\ wFailed[1]) =>
           /\ wpc[1] = "returned"
           /\ result = FirstPages(srvProj[1], Len(wReqs[1]) - 1)
    /\ (entry = "getAllSubgroups" /\ subFailed[1]) =>
           /\ cpc = "returned"
           /\ result = FirstPages(srvSub[1], Len(subReqs[1]) - 1)
    /\ (entry = "getAllProjects" /\ listFailed) =>
           /\ lpc = "returned"
           /\ result = projectNameSpaces(FirstPages(srvAll, Len(listReqs) - 1))

\* =================================================================
\* Properties of the subgroup resolution (SpecResolve)
\* =================================================================

\* The pages of descendants root number i got before its resolution ended.
PagesGot(i) == Len(subReqs[i]) - (IF subFailed[i] THEN 1 ELSE 0)

\* What the first n roots should have put into allGroups: each root itself,
\* then the descendants its resolution accumulated.
RECURSIVE ResolvedUpTo(_)
ResolvedUpTo(n) ==
    IF n = 0 THEN <<>>
    ELSE ResolvedUpTo(n - 1)
         \o <<roots[n]>> \o FirstPages(srvSub[roots[n]], PagesGot(n))

\* C15: when ListDescendantGroups fails on a page for a root, allGroups
\* still gets that root and the descendants accumulated before the failure,
\* every root whose requests all succeeded is resolved in full, and every
\* entry of allGroups has its projects queried before the crawl returns.
C15_FailureIsLocal ==
    /\ cpc \in {"spawn", "wait", "returned"} =>
           /\ allGroups = ResolvedUpTo(Len(roots))
           /\ \A i \in 1..Len(roots) :
                  /\ subReqs[i] = Range(1, Len(subReqs[i]))
                  /\ ~subFailed[i] => PagesGot(i) = Len(srvSub[roots[i]])
    /\ cpc = "returned" =>
           \A w \in 1..Len(allGroups) :
               wGid[w] = allGroups[w] /\ wReqs[w] # <<>> /\ wpc[w] = "done"

\* Roots 1 and 2: the second page of the descendants of group 1 failed, so
\* group 1 brought only group 2 with it, and root 2 was resolved in full.
C15_Witness ==
    /\ cpc = "returned"
    /\ roots = <<1, 2>>
    /\ subFailed[1] /\ subReqs[1] = <<1, 2>>
    /\ ~subFailed[2]
    /\ allGroups = <<1, 2, 2, 3>>

\* The status the loop of job j has observed last, the one passed in or the
\* one the last GetJob returned, is in the running set.
OnlyRunningSeen(j) ==
    /\ j <= Len(jobs)
    /\ jobStatus[j] \in RunningSet

\* C17: as long as the statuses the loop has observed are in the running
\* set (it is enough that the last one is), DoTrace has not returned, it has
\* fetched the trace once in every round of the loop, and a loop waiting
\* for its tick fetches the trace at the tick.
C17_NoOtherExit ==
    \A j \in JobIds :
        (tpc[j] \in {"tick", "getjob", "returned"} /\ OnlyRunningSeen(j)) =>
            /\ tpc[j] # "returned"
            /\ Len(tickLog[j]) =
                   statusFetches[j] + (IF tpc[j] = "getjob" THEN 1 ELSE 0)
            /\ (tpc[j] = "tick" /\ Len(tickLog[j]) < TickCap) =>
                   ENABLED (Tick(j) /\ Len(tickLog'[j]) = Len(tickLog[j]) + 1)

\* A loop that has made MaxTicks ticks on a job it has only seen running and
\* is about to fetch the status again.
C17_Witness ==
    \E j \in JobIds :
        /\ tpc[j] = "getjob"
        /\ Len(tickLog[j]) = MaxTicks
        /\ statusFetches[j] = MaxTicks - 1
        /\ OnlyRunningSeen(j)
        /\ tailLine >= 1

\* The number of elements of the slice the println loop of job j's next
\* tick indexes with offset: the window on the first tick, all pieces after.
SliceLen(j) ==
    LET length == Len(Split(srvTrace[j]))
    IN IF firstTail[j] THEN (length - 1) - Begin(length, tailLine) ELSE length

\* C18: with tailLine >= 1 and a trace that only grows, no tick panics: at
\* every tick 0 <= begin <= len(lines)-1 if it is the first, and offset is
\* at most the number of elements of the slice it indexes.
C18_SlicesInRange ==
    \A j \in JobIds :
        tailLine >= 1 =>
            /\ tpc[j] # "panic"
            /\ tpc[j] = "tick" =>
                   /\ firstTail[j] =>
                          /\ 0 <= Begin(Len(Split(srvTrace[j])), tailLine)
                          /\ Begin(Len(Split(srvTrace[j])), tailLine)
                                 <= Len(Split(srvTrace[j])) - 1
                   /\ 0 <= offset[j] /\ offset[j] <= SliceLen(j)

\* A loop that returned after a first tick on a trace shorter than tailLine
\* (begin clamped at 0) and a later tick on a longer trace.
C18_Witness ==
    \E j \in JobIds :
        /\ tailLine >= 1
        /\ tpc[j] = "returned"
        /\ Len(tickLog[j]) >= 2
        /\ Seen(j, 1) + 1 < tailLine
        /\ Seen(j, 2) > Seen(j, 1)

\* C19: the step in which DoTrace returns is a tick that fetches the trace
\* while the loop already holds a status outside the running set (the one
\* passed in, or one an earlier GetJob returned); the step fetches no status
\* and leaves the held status as it is, and a returned loop has made one
\* trace fetch more than status fetches.
C19_LastFetchAfterStatus ==
    /\ [](\A j \in JobIds :
            tpc[j] = "returned" =>
                /\ jobStatus[j] \notin RunningSet
                /\ Len(tickLog[j]) = statusFetches[j] + 1
                /\ statusFetches[j] = 0 => jobStatus[j] = jobs[j])
    /\ [][\A j \in JobIds :
            (tpc[j] # "returned" /\ tpc'[j] = "returned") =>
                /\ jobStatus[j] \notin RunningSet
                /\ jobStatus'[j] = jobStatus[j]
                /\ statusFetches'[j] = statusFetches[j]
                /\ Len(tickLog'[j]) = Len(tickLog[j]) + 1]_vars

\* A loop called on a running job that returned after a last fetch which
\* found lines written since the fetch before it.
C19_Witness ==
    \E j \in JobIds :
        /\ tpc[j] = "returned"
        /\ Len(tickLog[j]) >= 2
        /\ jobs[j] \in RunningSet
        /\ Seen(j, Len(tickLog[j])) > Seen(j, Len(tickLog[j]) - 1)
        /\ tailLine >= 1

\* =================================================================
\* Termination of DoTrace (SpecTraceLive)
\* =================================================================

\* C16 as stated: if the server comes to report a status outside the
\* running set and keeps reporting it, DoTrace eventually returns.
C16_Returns ==
    \A j \in JobIds :
        <>[](srvStatus[j] \notin RunningSet) => <>(tpc[j] = "returned")

\* C16 (amended): with tailLine >= 1, if the server comes to report a status
\* outside the running set and keeps reporting it, DoTrace eventually
\* returns.
C16_ReturnsIfTailPositive ==
    \A j \in JobIds :
        (tailLine >= 1 /\ <>[](srvStatus[j] \notin RunningSet))
            => <>(tpc[j] = "returned")

\* A loop called on a running job that returned after the server had moved
\* the job out of the running set.
C16_Witness ==
    \E j \in JobIds :
        /\ tailLine >= 1
        /\ j <= Len(jobs) /\ jobs[j] \in RunningSet
        /\ statusFetches[j] >= 2
        /\ srvStatus[j] \notin RunningSet
        /\ tpc[j] = "returned"

====
